---- MODULE Spec2Model ----
(***************************************************************************)
(* The ledger engine of blockchain_app.py: the Blockchain object (chain,   *)
(* pending_transactions, utxo_pool, difficulty) and the request handlers   *)
(* that change or read it.  The handlers are `async def` bodies without    *)
(* any await, so each one runs to completion on the event loop: Spec has   *)
(* one action for each handler that changes the ledger, and SpecReads one  *)
(* more for each handler that reads it.  SpecLoop takes the handlers that  *)
(* append a block statement by statement, with the event loop starting a   *)
(* handler only when no other one is running; pc is the place of the       *)
(* running handler and local_block its new_block (mine_block) or block     *)
(* (add_block).                                                            *)
(*                                                                         *)
(* Strings of hexadecimal characters (hash, previous_hash) are sequences   *)
(* of digits 0..15: "" is <<>>, "0" is <<0>>.  Transaction and UTXO        *)
(* identifiers, keys and signatures are small naturals; the naturals that  *)
(* stand for the sender and signature strings are told apart by is_hex and *)
(* is_point.                                                               *)
(***************************************************************************)
EXTENDS Integers, Sequences, FiniteSets, TLC

VARIABLES chain, pending_transactions, utxo_pool, difficulty, response,
          pc, local_block

vars == <<chain, pending_transactions, utxo_pool, difficulty, response,
          pc, local_block>>

ledger == <<chain, pending_transactions, utxo_pool>>

-----------------------------------------------------------------------------
(* Bounds of the model *)

\* blocks on the chain, the genesis block included
MaxChain == 3
\* transactions waiting in pending_transactions
MaxPending == 2
\* transactions of a block posted to /add_block
MaxBlockTxs == 1
\* largest nonce of a block posted to /add_block
MaxNonce == 1
\* number of distinct digests of the modelled SHA-256
DigestSpace == 37
\* largest reading of the clock
MaxTime == 1
\* largest natural that stands for a string of hexadecimal characters
MaxHex == 1
\* largest natural that stands for the encoding of a point of the curve
MaxKey == 1
\* largest nonce the search of SpecLoop tries
MaxSearch == 40

\* self.difficulty: int = 4
Difficulty == 4

\* hexdigest() has a fixed length; one digit more than the difficulty prefix
HashLen == Difficulty + 1

\* time.time() as read by create_genesis_block and mine_block
Timestamps == 1..MaxTime

-----------------------------------------------------------------------------
(* Requests *)

Tx(id, amount, inputs, outputs) ==
    [id |-> id, sender |-> 1, receiver |-> 2, amount |-> amount,
     input_utxos |-> inputs, output_utxos |-> outputs, signature |-> 1]

\* creates outputs 1 and 2 from nothing
TxCreate == Tx(1, 10, <<>>, <<1, 2>>)
\* spends output 1, creates output 2
TxSpend == Tx(2, 25, <<1>>, <<2>>)
\* bodies of POST /new_transaction, and the transactions of posted blocks
Transactions == { TxCreate, TxSpend }

UTXO(transaction_id, amount, is_spent) ==
    [transaction_id |-> transaction_id, amount |-> amount, is_spent |-> is_spent]

Block(index, timestamp, transactions, previous_hash, nonce, hash) ==
    [index |-> index, timestamp |-> timestamp, transactions |-> transactions,
     previous_hash |-> previous_hash, nonce |-> nonce, hash |-> hash]

TxLists(n) == UNION { [1..k -> Transactions] : k \in 0..n }

-----------------------------------------------------------------------------
(* Strings of hexadecimal characters *)

Zeros(n) == [i \in 1..n |-> 0]

startswith(s, prefix) ==
    /\ Len(s) >= Len(prefix)
    /\ SubSeq(s, 1, Len(prefix)) = prefix

RECURSIVE Pow16(_)
Pow16(n) == IF n = 0 THEN 1 ELSE 16 * Pow16(n - 1)

\* a digest as HashLen hexadecimal characters, leading zeros kept
hexdigest(v) == [i \in 1..HashLen |-> (v \div Pow16(HashLen - i)) % 16]

-----------------------------------------------------------------------------
(* compute_hash: json.dumps(block_data, sort_keys=True), then sha256 *)

EncList(s) == <<Len(s)>> \o s

\* tx.dict() with its keys sorted
EncTx(tx) ==
    <<tx.amount, tx.id>> \o EncList(tx.input_utxos) \o EncList(tx.output_utxos)
        \o <<tx.receiver, tx.sender, tx.signature>>

RECURSIVE EncTxs(_)
EncTxs(txs) ==
    IF txs = <<>> THEN <<>> ELSE EncTx(Head(txs)) \o EncTxs(Tail(txs))

\* block_data with its keys sorted; the block's own hash is not a key of it
json_dumps(block) ==
    <<block.index, block.nonce>> \o EncList(block.previous_hash)
        \o <<block.timestamp, Len(block.transactions)>> \o EncTxs(block.transactions)

\* the digest after the bytes from place i on are taken in, h being the
\* digest of the bytes before them
RECURSIVE Absorb(_, _, _)
Absorb(h, bytes, i) ==
    IF i > Len(bytes) THEN h
    ELSE Absorb((3 * h + bytes[i] + 1) % DigestSpace, bytes, i + 1)

\* a deterministic digest of the encoded bytes, every byte and its place counted
sha256(bytes) == hexdigest(Absorb(0, bytes, 1))

compute_hash(block) == sha256(json_dumps(block))

-----------------------------------------------------------------------------
(* State *)

Tip == chain[Len(chain)]

EmptyPool == [u \in {} |-> UTXO(0, 0, FALSE)]

Response(status_code, message) == [status_code |-> status_code, message |-> message]

\* local_block while no handler that builds or receives a block is running
NoBlock == [index |-> 0, timestamp |-> 0, transactions |-> <<>>,
            previous_hash |-> <<>>, nonce |-> 0, hash |-> <<>>]

create_genesis_block(now) ==
    LET genesis_block == Block(0, now, <<>>, <<0>>, 0, <<>>)
    IN  [genesis_block EXCEPT !.hash = compute_hash(genesis_block)]

Init ==
    /\ \E now \in Timestamps : chain = <<create_genesis_block(now)>>
    /\ pending_transactions = <<>>
    /\ utxo_pool = EmptyPool
    /\ difficulty = Difficulty
    /\ response = Response(0, "")
    /\ pc = "idle"
    /\ local_block = NoBlock

-----------------------------------------------------------------------------
(* Blockchain.update_utxo_pool *)

Range(s) == { s[i] : i \in 1..Len(s) }

Min(a, b) == IF a <= b THEN a ELSE b

zip(a, b) == [i \in 1..Min(Len(a), Len(b)) |-> <<a[i], b[i]>>]

\* as mark_inputs_spent, but an input missing from the pool gets an entry
mark_inputs_spent_creating(pool, transaction) ==
    [u \in DOMAIN pool \cup Range(transaction.input_utxos) |->
        IF u \in Range(transaction.input_utxos)
        THEN IF u \in DOMAIN pool
             THEN [pool[u] EXCEPT !.is_spent = TRUE]
             ELSE UTXO(transaction.id, 0, TRUE)
        ELSE pool[u]]

\* for utxo_id in transaction.input_utxos: if utxo_id in self.utxo_pool: is_spent = True
mark_inputs_spent(pool, transaction) ==
    [u \in DOMAIN pool |->
        IF u \in Range(transaction.input_utxos)
        THEN [pool[u] EXCEPT !.is_spent = TRUE]
        ELSE pool[u]]

RECURSIVE put_outputs(_, _, _)
put_outputs(pool, transaction, pairs) ==
    IF pairs = <<>> THEN pool
    ELSE LET utxo_id == Head(pairs)[1]
             amount == Head(pairs)[2]
             entry == UTXO(transaction.id, amount, FALSE)
         IN  put_outputs([u \in DOMAIN pool \cup {utxo_id} |->
                             IF u = utxo_id THEN entry ELSE pool[u]],
                         transaction, Tail(pairs))

\* for utxo_id, amount in zip(transaction.output_utxos, [transaction.amount])
create_outputs(pool, transaction) ==
    put_outputs(pool, transaction,
                zip(transaction.output_utxos, <<transaction.amount>>))

apply_transaction(pool, transaction) ==
    create_outputs(mark_inputs_spent(pool, transaction), transaction)

RECURSIVE apply_transactions(_, _)
apply_transactions(pool, transactions) ==
    IF transactions = <<>> THEN pool
    ELSE apply_transactions(apply_transaction(pool, Head(transactions)),
                            Tail(transactions))

update_utxo_pool(pool, block) == apply_transactions(pool, block.transactions)

-----------------------------------------------------------------------------
(* Blockchain.mine_block and Blockchain.validate_block *)

\* as proof_of_work, with the hash of the candidate computed before the first
\* test, so that the nonce the candidate starts with is tried too
RECURSIVE proof_of_work_from_zero(_)
proof_of_work_from_zero(new_block) ==
    LET hashed == [new_block EXCEPT !.hash = compute_hash(new_block)]
    IN  IF startswith(hashed.hash, Zeros(difficulty)) THEN hashed
        ELSE proof_of_work_from_zero([new_block EXCEPT !.nonce = new_block.nonce + 1])

\* while not new_block.hash.startswith("0" * self.difficulty)
RECURSIVE proof_of_work(_)
proof_of_work(new_block) ==
    IF startswith(new_block.hash, Zeros(difficulty)) THEN new_block
    ELSE LET next == [new_block EXCEPT !.nonce = new_block.nonce + 1]
         IN  proof_of_work([next EXCEPT !.hash = compute_hash(next)])

new_candidate(now) ==
    LET last_block == Tip
    IN  Block(last_block.index + 1, now, pending_transactions, last_block.hash, 0, <<>>)

\* as validate_block, without the difficulty test
validate_block_hash_only(block) ==
    IF block.hash # compute_hash(block) THEN FALSE
    ELSE TRUE

\* as validate_block, without recomputing the hash
validate_block_prefix_only(block) ==
    IF ~startswith(block.hash, Zeros(difficulty)) THEN FALSE
    ELSE TRUE

validate_block(block) ==
    IF block.hash # compute_hash(block) THEN FALSE
    ELSE IF ~startswith(block.hash, Zeros(difficulty)) THEN FALSE
    ELSE TRUE

-----------------------------------------------------------------------------
(* Signatures: bytes.fromhex, ecdsa.VerifyingKey and verify_signature *)

\* the sender and signature strings of a request: 0..MaxHex are strings of
\* hexadecimal characters, MaxHex + 1 has a character that is not one
Strings == 0..(MaxHex + 1)

\* bytes.fromhex(s) returns; it raises ValueError for every other string
is_hex(s) == s \in 0..MaxHex

\* VerifyingKey.from_string(key, curve=SECP256k1) returns; it raises
\* MalformedPointError for bytes of another length or off the curve
is_point(key) == key \in 1..MaxKey

\* json.dumps(transaction.dict()): the fields in their declared order
transaction_json(transaction) ==
    <<transaction.id, transaction.sender, transaction.receiver, transaction.amount>>
        \o EncList(transaction.input_utxos) \o EncList(transaction.output_utxos)
        \o <<transaction.signature>>

\* public_key.verify(signature, data) returns True; it raises
\* BadSignatureError for every other signature, one of a wrong length included
ecdsa_verify(public_key, signature, data) ==
    signature = Absorb(public_key, data, 1) % (MaxHex + 1)

\* "True", "False", or the error that leaves the function
verify_signature(public_key, data, signature) ==
    IF ~is_hex(signature) THEN "ValueError"
    ELSE IF ecdsa_verify(public_key, signature, data) THEN "True"
    ELSE "False"

-----------------------------------------------------------------------------
(* Request handlers *)

\* as new_transaction, refusing a transaction that is already pending
new_transaction_once(transaction) ==
    IF transaction \in Range(pending_transactions)
    THEN /\ response' = Response(400, "Transaction already pending.")
         /\ UNCHANGED <<chain, pending_transactions, utxo_pool, difficulty>>
    ELSE /\ pending_transactions' = Append(pending_transactions, transaction)
         /\ response' = Response(200, "Transaction added successfully.")
         /\ UNCHANGED <<chain, utxo_pool, difficulty>>

\* POST /new_transaction
new_transaction(transaction) ==
    /\ pending_transactions' = Append(pending_transactions, transaction)
    /\ response' = Response(200, "Transaction added successfully.")
    /\ UNCHANGED <<chain, utxo_pool, difficulty>>

\* as mine_block, without pending_transactions.clear()
mine_block_keeps_pool ==
    IF pending_transactions = <<>>
    THEN /\ response' = Response(400, "No transactions to mine.")
         /\ UNCHANGED <<chain, pending_transactions, utxo_pool, difficulty>>
    ELSE \E now \in Timestamps :
            LET new_block == proof_of_work(new_candidate(now))
            IN  /\ chain' = Append(chain, new_block)
                /\ utxo_pool' = update_utxo_pool(utxo_pool, new_block)
                /\ response' = Response(200, "Block mined successfully.")
                /\ UNCHANGED <<pending_transactions, difficulty>>

\* as mine_block, without the test for an empty pending_transactions
mine_block_empty_allowed ==
    \E now \in Timestamps :
        LET new_block == proof_of_work(new_candidate(now))
        IN  /\ chain' = Append(chain, new_block)
            /\ pending_transactions' = <<>>
            /\ utxo_pool' = update_utxo_pool(utxo_pool, new_block)
            /\ response' = Response(200, "Block mined successfully.")
            /\ UNCHANGED difficulty

\* GET /mine_block, with Blockchain.mine_block
mine_block ==
    IF pending_transactions = <<>>
    THEN /\ response' = Response(400, "No transactions to mine.")
         /\ UNCHANGED <<chain, pending_transactions, utxo_pool, difficulty>>
    ELSE \E now \in Timestamps :
            LET new_block == proof_of_work(new_candidate(now))
            IN  /\ chain' = Append(chain, new_block)
                /\ pending_transactions' = <<>>
                /\ utxo_pool' = update_utxo_pool(utxo_pool, new_block)
                /\ response' = Response(200, "Block mined successfully.")
                /\ UNCHANGED difficulty

\* as add_block, the accepted block taking the place of the tip
add_block_replacing_tip(block) ==
    LET last_block == Tip
    IN  IF block.previous_hash # last_block.hash
        THEN /\ response' = Response(400, "Invalid previous hash.")
             /\ UNCHANGED <<chain, pending_transactions, utxo_pool, difficulty>>
        ELSE IF ~validate_block(block)
        THEN /\ response' = Response(400, "Invalid block.")
             /\ UNCHANGED <<chain, pending_transactions, utxo_pool, difficulty>>
        ELSE /\ chain' = [chain EXCEPT ![Len(chain)] = block]
             /\ utxo_pool' = update_utxo_pool(utxo_pool, block)
             /\ response' = Response(200, "Block added successfully.")
             /\ UNCHANGED <<pending_transactions, difficulty>>

\* as add_block, without the comparison of previous_hash with the tip's hash
add_block_unlinked(block) ==
    IF ~validate_block(block)
    THEN /\ response' = Response(400, "Invalid block.")
         /\ UNCHANGED <<chain, pending_transactions, utxo_pool, difficulty>>
    ELSE /\ chain' = Append(chain, block)
         /\ utxo_pool' = update_utxo_pool(utxo_pool, block)
         /\ response' = Response(200, "Block added successfully.")
         /\ UNCHANGED <<pending_transactions, difficulty>>

\* as add_block, with validate_block called before previous_hash is compared
add_block_validates_first(block) ==
    LET last_block == Tip
    IN  IF ~validate_block(block)
        THEN /\ response' = Response(400, "Invalid block.")
             /\ UNCHANGED <<chain, pending_transactions, utxo_pool, difficulty>>
        ELSE IF block.previous_hash # last_block.hash
        THEN /\ response' = Response(400, "Invalid previous hash.")
             /\ UNCHANGED <<chain, pending_transactions, utxo_pool, difficulty>>
        ELSE /\ chain' = Append(chain, block)
             /\ utxo_pool' = update_utxo_pool(utxo_pool, block)
             /\ response' = Response(200, "Block added successfully.")
             /\ UNCHANGED <<pending_transactions, difficulty>>

\* POST /add_block
add_block(block) ==
    LET last_block == Tip
    IN  IF block.previous_hash # last_block.hash
        THEN /\ response' = Response(400, "Invalid previous hash.")
             /\ UNCHANGED <<chain, pending_transactions, utxo_pool, difficulty>>
        ELSE IF ~validate_block(block)
        THEN /\ response' = Response(400, "Invalid block.")
             /\ UNCHANGED <<chain, pending_transactions, utxo_pool, difficulty>>
        ELSE /\ chain' = Append(chain, block)
             /\ utxo_pool' = update_utxo_pool(utxo_pool, block)
             /\ response' = Response(200, "Block added successfully.")
             /\ UNCHANGED <<pending_transactions, difficulty>>

\* GET /chain
get_chain ==
    /\ response' = Response(200, "chain")
    /\ UNCHANGED <<chain, pending_transactions, utxo_pool, difficulty>>

\* GET /utxo_pool
get_utxo_pool ==
    /\ response' = Response(200, "utxo_pool")
    /\ UNCHANGED <<chain, pending_transactions, utxo_pool, difficulty>>

\* as unspendable, without the test of is_spent
unspendable_absent_only(transaction) ==
    { i \in 1..Len(transaction.input_utxos) :
        transaction.input_utxos[i] \notin DOMAIN utxo_pool }

\* the places of input_utxos whose identifier is not in the pool, or is spent
unspendable(transaction) ==
    { i \in 1..Len(transaction.input_utxos) :
        \/ transaction.input_utxos[i] \notin DOMAIN utxo_pool
        \/ utxo_pool[transaction.input_utxos[i]].is_spent }

\* the first element of a non-empty set of places
first(places) == CHOOSE i \in places : \A j \in places : i <= j

\* an exception that no handler catches: the server answers 500
InternalServerError == Response(500, "Internal Server Error")

\* POST /verify_transaction
verify_transaction(transaction) ==
    /\ UNCHANGED <<chain, pending_transactions, utxo_pool, difficulty>>
    /\ IF unspendable(transaction) # {}
       THEN LET utxo_id == transaction.input_utxos[first(unspendable(transaction))]
            IN  response' = Response(400, "Invalid or spent UTXO: " \o ToString(utxo_id))
       ELSE IF ~is_hex(transaction.sender) \/ ~is_point(transaction.sender)
       THEN response' = InternalServerError
       ELSE LET is_valid == verify_signature(transaction.sender,
                                             transaction_json(transaction),
                                             transaction.signature)
            IN  IF is_valid = "ValueError" THEN response' = InternalServerError
                ELSE IF is_valid = "False"
                THEN response' = Response(400, "Invalid transaction signature.")
                ELSE response' = Response(200, "Transaction is valid.")

-----------------------------------------------------------------------------
(* Bodies of POST /add_block *)

\* hash fields a client may send with the other fields of a block: the digest
\* of those fields, a digest taken before the transaction list was replaced,
\* and a string that fails the difficulty test
PostedHashes(block) ==
    { compute_hash(block),
      compute_hash([block EXCEPT !.transactions = <<>>]),
      hexdigest(DigestSpace - 1) }

PostedPreviousHashes == { Tip.hash, <<0>> }

\* the request bodies the model posts, their hash field left open
PostedFields ==
    { Block(index, timestamp, transactions, previous_hash, nonce, <<>>) :
        index \in {0, Len(chain)}, timestamp \in Timestamps,
        transactions \in TxLists(MaxBlockTxs),
        previous_hash \in PostedPreviousHashes, nonce \in 0..MaxNonce }

\* the request bodies the model posts
PostedBlocks ==
    UNION { { [fields EXCEPT !.hash = hash] : hash \in PostedHashes(fields) } :
              fields \in PostedFields }

\* the request bodies the model sends to /verify_transaction
VerifiedTransactions ==
    { [transaction EXCEPT !.input_utxos = inputs, !.sender = sender,
                          !.signature = signature] :
        transaction \in {TxSpend}, inputs \in {<<>>, <<1>>, <<2, 1>>},
        sender \in Strings, signature \in Strings }

-----------------------------------------------------------------------------
(* Specification *)

Next ==
    \/ \E transaction \in Transactions :
          /\ Len(pending_transactions) < MaxPending
          /\ new_transaction(transaction)
          /\ UNCHANGED <<pc, local_block>>
    \/ /\ Len(chain) < MaxChain
       /\ mine_block
       /\ UNCHANGED <<pc, local_block>>
    \/ /\ Len(chain) < MaxChain
       /\ \E block \in PostedBlocks : add_block(block)
       /\ UNCHANGED <<pc, local_block>>

\* the handlers that change the ledger, each one a single step
Spec == Init /\ [][Next]_vars

NextReads ==
    \/ Next
    \/ /\ get_chain
       /\ UNCHANGED <<pc, local_block>>
    \/ /\ get_utxo_pool
       /\ UNCHANGED <<pc, local_block>>
    \/ /\ \E transaction \in VerifiedTransactions : verify_transaction(transaction)
       /\ UNCHANGED <<pc, local_block>>

\* every handler, each one a single step
SpecReads == Init /\ [][NextReads]_vars

-----------------------------------------------------------------------------
(* The handlers statement by statement, as the event loop runs them *)

\* the values self.difficulty is given: none, the one of the source, and one
\* more than a digest has characters
Difficulties == {0, Difficulty, HashLen + 1}

InitLoop ==
    /\ \E now \in Timestamps : chain = <<create_genesis_block(now)>>
    /\ pending_transactions = <<>>
    /\ utxo_pool = EmptyPool
    /\ difficulty \in Difficulties
    /\ response = Response(0, "")
    /\ pc = "idle"
    /\ local_block = NoBlock

\* as loop_free, for handlers run in threads of their own
loop_free_always == TRUE

\* as loop_free, for a search that yields to the event loop
loop_free_or_searching == pc \in {"idle", "search"}

\* the handlers are coroutines without an await: the event loop starts one
\* only when no other one is running
loop_free == pc = "idle"

\* Blockchain.mine_block up to the candidate block
begin_mine_block ==
    /\ loop_free
    /\ IF pending_transactions = <<>>
       THEN /\ response' = Response(400, "No transactions to mine.")
            /\ UNCHANGED <<chain, pending_transactions, utxo_pool, difficulty,
                           pc, local_block>>
       ELSE /\ \E now \in Timestamps : local_block' = new_candidate(now)
            /\ pc' = "search"
            /\ UNCHANGED <<chain, pending_transactions, utxo_pool, difficulty,
                           response>>

\* new_block.nonce += 1; new_block.hash = self.compute_hash(new_block)
next_nonce(block) ==
    LET next == [block EXCEPT !.nonce = block.nonce + 1]
    IN  [next EXCEPT !.hash = compute_hash(next)]

\* as search_nonce, the hash not computed again after the nonce is raised
search_nonce_stale ==
    /\ pc = "search"
    /\ IF startswith(local_block.hash, Zeros(difficulty))
       THEN /\ chain' = Append(chain, local_block)
            /\ pc' = "clear"
            /\ UNCHANGED <<pending_transactions, utxo_pool, difficulty, response,
                           local_block>>
       ELSE /\ local_block.nonce < MaxSearch
            /\ local_block' = [local_block EXCEPT !.nonce = local_block.nonce + 1]
            /\ UNCHANGED <<chain, pending_transactions, utxo_pool, difficulty,
                           response, pc>>

\* one test of the while loop: the body once more, or self.chain.append
search_nonce ==
    /\ pc = "search"
    /\ IF startswith(local_block.hash, Zeros(difficulty))
       THEN /\ chain' = Append(chain, local_block)
            /\ pc' = "clear"
            /\ UNCHANGED <<pending_transactions, utxo_pool, difficulty, response,
                           local_block>>
       ELSE /\ local_block.nonce < MaxSearch
            /\ local_block' = next_nonce(local_block)
            /\ UNCHANGED <<chain, pending_transactions, utxo_pool, difficulty,
                           response, pc>>

\* self.pending_transactions.clear()
clear_pending ==
    /\ pc = "clear"
    /\ pending_transactions' = <<>>
    /\ pc' = "update"
    /\ UNCHANGED <<chain, utxo_pool, difficulty, response, local_block>>

\* self.update_utxo_pool(new_block), and the answer of GET /mine_block
finish_mine_block ==
    /\ pc = "update"
    /\ utxo_pool' = update_utxo_pool(utxo_pool, local_block)
    /\ response' = Response(200, "Block mined successfully.")
    /\ pc' = "idle"
    /\ local_block' = NoBlock
    /\ UNCHANGED <<chain, pending_transactions, difficulty>>

\* POST /add_block up to blockchain.chain.append(block)
begin_add_block(block) ==
    LET last_block == Tip
    IN  /\ loop_free
        /\ IF block.previous_hash # last_block.hash
           THEN /\ response' = Response(400, "Invalid previous hash.")
                /\ UNCHANGED <<chain, pending_transactions, utxo_pool, difficulty,
                               pc, local_block>>
           ELSE IF ~validate_block(block)
           THEN /\ response' = Response(400, "Invalid block.")
                /\ UNCHANGED <<chain, pending_transactions, utxo_pool, difficulty,
                               pc, local_block>>
           ELSE /\ chain' = Append(chain, block)
                /\ pc' = "apply"
                /\ local_block' = block
                /\ UNCHANGED <<pending_transactions, utxo_pool, difficulty,
                               response>>

\* blockchain.update_utxo_pool(block), and the answer of POST /add_block
finish_add_block ==
    /\ pc = "apply"
    /\ utxo_pool' = update_utxo_pool(utxo_pool, local_block)
    /\ response' = Response(200, "Block added successfully.")
    /\ pc' = "idle"
    /\ local_block' = NoBlock
    /\ UNCHANGED <<chain, pending_transactions, difficulty>>

NextLoop ==
    \/ \E transaction \in Transactions :
          /\ Len(pending_transactions) < MaxPending
          /\ loop_free
          /\ new_transaction(transaction)
          /\ UNCHANGED <<pc, local_block>>
    \/ /\ Len(chain) < MaxChain
       /\ begin_mine_block
    \/ search_nonce
    \/ clear_pending
    \/ finish_mine_block
    \/ /\ Len(chain) < MaxChain
       /\ \E block \in PostedBlocks : begin_add_block(block)
    \/ finish_add_block
    \/ /\ loop_free
       /\ get_chain
       /\ UNCHANGED <<pc, local_block>>
    \/ /\ loop_free
       /\ get_utxo_pool
       /\ UNCHANGED <<pc, local_block>>
    \/ /\ loop_free
       /\ \E transaction \in VerifiedTransactions : verify_transaction(transaction)
       /\ UNCHANGED <<pc, local_block>>

\* every handler, statement by statement
SpecLoop == InitLoop /\ [][NextLoop]_vars

\* a step of the handler that is running
running_step ==
    search_nonce \/ clear_pending \/ finish_mine_block \/ finish_add_block

\* the handler that is running is not suspended: it has no await, and the
\* interpreter goes on with it until it returns
SpecLoopFair == SpecLoop /\ WF_vars(running_step)

-----------------------------------------------------------------------------
(* Properties *)

SatisfiesDifficulty(block) == startswith(block.hash, Zeros(difficulty))

\* C1. Chain linkage: every block after the first carries, as previous_hash,
\* the hash of the block before it.
C1_ChainLinked ==
    \A i \in 1..(Len(chain) - 1) : chain[i + 1].previous_hash = chain[i].hash

\* a posted block (index 0 again) followed by a mined block of two transactions
C1_Witness ==
    /\ Len(chain) = 3
    /\ chain[2].index = 0
    /\ Len(chain[3].transactions) = 2

C3_SpentIsPermanent ==
    [][\A u \in DOMAIN utxo_pool :
          utxo_pool[u].is_spent =>
              /\ u \in DOMAIN utxo_pool'
              /\ utxo_pool'[u].is_spent]_vars

\* no transaction after the j-th of the block names u as input or output
UntouchedAfter(block, j, u) ==
    \A m \in (j + 1)..Len(block.transactions) :
        /\ u \notin Range(block.transactions[m].input_utxos)
        /\ u \notin Range(block.transactions[m].output_utxos)

\* C4. Output creation: when a block is appended, every identifier in the
\* output_utxos of every transaction of it has a ledger entry, and that entry
\* is unspent, owned by the transaction and of the transaction's amount
\* unless a later transaction of the same block names the identifier.
C4_EveryOutputCreated ==
    [][Len(chain') = Len(chain) + 1 =>
          LET block == chain'[Len(chain')]
          IN  \A j \in 1..Len(block.transactions) :
                LET tx == block.transactions[j]
                IN  \A k \in 1..Len(tx.output_utxos) :
                      LET u == tx.output_utxos[k]
                      IN  /\ u \in DOMAIN utxo_pool'
                          /\ UntouchedAfter(block, j, u) =>
                                utxo_pool'[u] = UTXO(tx.id, tx.amount, FALSE)]_vars

\* the places of the chain where a transaction of this id stands
Inclusions(id) ==
    { p \in UNION { { <<i, j>> : j \in 1..Len(chain[i].transactions) } :
                      i \in 1..Len(chain) } :
        chain[p[1]].transactions[p[2]].id = id }

\* C5. A transaction is included at most once: no transaction id stands at
\* two places of the chain, in one block or in two.
C5_IncludedAtMostOnce ==
    \A tx \in Transactions : Cardinality(Inclusions(tx.id)) <= 1

\* C6. Successful mining step: mine_block with a non-empty pool appends
\* exactly one block to the old chain; the block's transactions are the pool
\* in submission order, its previous_hash is the old tip's hash, the pool is
\* empty afterwards and the ledger is the old ledger with the block applied.
C6_MiningStep ==
    [][(pending_transactions # <<>> /\ mine_block) =>
          /\ Len(chain') = Len(chain) + 1
          /\ SubSeq(chain', 1, Len(chain)) = chain
          /\ chain'[Len(chain')].transactions = pending_transactions
          /\ chain'[Len(chain')].previous_hash = Tip.hash
          /\ pending_transactions' = <<>>
          /\ utxo_pool' = update_utxo_pool(utxo_pool, chain'[Len(chain')])
          /\ response' = Response(200, "Block mined successfully.")]_vars

\* a block was just mined from two different transactions, in their order
C6_Witness ==
    /\ response = Response(200, "Block mined successfully.")
    /\ Tip.transactions = <<TxCreate, TxSpend>>
    /\ pending_transactions = <<>>

\* C7. Mining an empty pool is an error with no effect: the answer is 400
\* 'No transactions to mine.' and chain, pool and ledger stay as they were.
C7_EmptyPoolRejected ==
    [][(pending_transactions = <<>> /\ mine_block) =>
          /\ response' = Response(400, "No transactions to mine.")
          /\ UNCHANGED ledger]_vars

\* mining was refused on a chain that already holds a mined block
C7_Witness ==
    /\ response = Response(400, "No transactions to mine.")
    /\ pending_transactions = <<>>
    /\ Len(chain) = 2

\* C8. Previous-hash rejection: add_block of a block whose previous_hash is
\* not the tip's hash answers 400 'Invalid previous hash.', whatever the
\* block's own hash, and leaves chain, pool and ledger as they were.
C8_PreviousHashRejected ==
    [][\A block \in PostedBlocks :
          (block.previous_hash # Tip.hash /\ add_block(block)) =>
              /\ response' = Response(400, "Invalid previous hash.")
              /\ UNCHANGED ledger]_vars

\* a block was refused for its previous_hash after the chain had grown
C8_Witness ==
    /\ response = Response(400, "Invalid previous hash.")
    /\ Len(chain) = 2
    /\ pending_transactions # <<>>

\* C9. Hash rejection and tamper detection: add_block of a block on the tip
\* whose hash is not compute_hash of its other fields, or does not start
\* with `difficulty` zeros, answers 400 'Invalid block.' and changes nothing;
\* every other block on the tip is appended and applied to the ledger.
C9_InvalidHashRejected ==
    [][\A block \in PostedBlocks :
          (block.previous_hash = Tip.hash /\ add_block(block)) =>
              IF \/ block.hash # compute_hash(block)
                 \/ ~SatisfiesDifficulty(block)
              THEN /\ response' = Response(400, "Invalid block.")
                   /\ UNCHANGED ledger
              ELSE /\ chain' = Append(chain, block)
                   /\ utxo_pool' = update_utxo_pool(utxo_pool, block)
                   /\ pending_transactions' = pending_transactions
                   /\ response' = Response(200, "Block added successfully.")]_vars

\* a block was refused as invalid on top of an accepted posted block
C9_Witness ==
    /\ response = Response(400, "Invalid block.")
    /\ Len(chain) = 2
    /\ chain[2].index = 0
    /\ utxo_pool # EmptyPool

\* the identifiers some transaction of the block lists among its outputs
OutputsOf(block) ==
    UNION { Range(block.transactions[j].output_utxos) :
              j \in 1..Len(block.transactions) }

\* Marking the inputs of each transaction of the block, on the ledger as it
\* stands when that transaction is reached, leaves a spent input spent and
\* gives an absent input no entry; and so does the block as a whole for the
\* inputs that none of its transactions lists as an output.
InputsOnlyMarked(block) ==
    /\ \A j \in 1..Len(block.transactions) :
          LET tx == block.transactions[j]
              before == apply_transactions(utxo_pool, SubSeq(block.transactions, 1, j - 1))
              after == mark_inputs_spent(before, tx)
          IN  \A u \in Range(tx.input_utxos) :
                /\ u \in DOMAIN before => (u \in DOMAIN after /\ after[u].is_spent)
                /\ u \notin DOMAIN before => u \notin DOMAIN after
    /\ \A j \in 1..Len(block.transactions) :
          \A u \in Range(block.transactions[j].input_utxos) \ OutputsOf(block) :
             /\ u \in DOMAIN utxo_pool => (u \in DOMAIN utxo_pool' /\ utxo_pool'[u].is_spent)
             /\ u \notin DOMAIN utxo_pool => u \notin DOMAIN utxo_pool'

C11_VerifyReadOnly ==
    [][\A transaction \in VerifiedTransactions :
          verify_transaction(transaction) =>
              /\ UNCHANGED ledger
              /\ (\E u \in Range(transaction.input_utxos) :
                     u \notin DOMAIN utxo_pool \/ utxo_pool[u].is_spent) =>
                    /\ response'.status_code = 400
                    /\ response'.message \in
                          { "Invalid or spent UTXO: " \o ToString(u) :
                              u \in Range(transaction.input_utxos) }]_vars

\* a transaction was refused for an input that is in the ledger and spent
C11_Witness ==
    /\ response = Response(400, "Invalid or spent UTXO: 1")
    /\ 1 \in DOMAIN utxo_pool
    /\ utxo_pool[1].is_spent

\* C12 as stated: for a transaction whose inputs are all spendable,
\* verify_transaction answers 'Transaction is valid.' or 400 'Invalid
\* transaction signature.', whatever the sender and signature strings are.
C12_VerifyNeverCrashes ==
    [][\A transaction \in VerifiedTransactions :
          (unspendable(transaction) = {} /\ verify_transaction(transaction)) =>
              response' \in { Response(200, "Transaction is valid."),
                              Response(400, "Invalid transaction signature.") }]_vars

\* C13 as stated: the first block has index 0 and every later block has the
\* index of the block before it plus one.
C13_IndexesIncrease ==
    /\ chain[1].index = 0
    /\ \A i \in 1..(Len(chain) - 1) : chain[i + 1].index = chain[i].index + 1

\* the state right after Blockchain() is constructed
GenesisOnly ==
    /\ Len(chain) = 1
    /\ chain[1].index = 0
    /\ chain[1].previous_hash = <<0>>
    /\ chain[1].transactions = <<>>
    /\ chain[1].hash = compute_hash(chain[1])
    /\ pending_transactions = <<>>
    /\ utxo_pool = EmptyPool

\* C14. Append-only chain rooted at genesis: the first state holds the
\* genesis block alone (index 0, previous_hash "0", no transactions, hash =
\* compute_hash of it) with an empty pool and an empty ledger, and every step
\* leaves the chain it found as a prefix of the chain it leaves.
C14_AppendOnly ==
    /\ GenesisOnly
    /\ [][/\ Len(chain') >= Len(chain)
          /\ SubSeq(chain', 1, Len(chain)) = chain]_vars

\* a posted block was refused on top of a mined block of two transactions
C14_Witness ==
    /\ response = Response(400, "Invalid block.")
    /\ Len(chain) = 2
    /\ Len(chain[2].transactions) = 2
    /\ chain[1].index = 0

\* C16. Submission is unconditional and local: new_transaction answers 200
\* for any transaction, puts it at the end of the pool behind the entries
\* that were there, and leaves the chain and the ledger as they were.
C16_SubmissionUnconditional ==
    [][\A transaction \in Transactions :
          new_transaction(transaction) =>
              /\ pending_transactions' = Append(pending_transactions, transaction)
              /\ chain' = chain
              /\ utxo_pool' = utxo_pool
              /\ response' = Response(200, "Transaction added successfully.")]_vars

\* a transaction whose input is not in the ledger was accepted twice
C16_Witness ==
    /\ response = Response(200, "Transaction added successfully.")
    /\ pending_transactions = <<TxSpend, TxSpend>>
    /\ utxo_pool = EmptyPool

\* the block with nonce n has a hash that starts with `difficulty` zeros
Solves(block, n) ==
    startswith(compute_hash([block EXCEPT !.nonce = n]), Zeros(difficulty))

\* C18 as stated: the nonce of a mined block is the smallest n >= 0 whose
\* hash starts with `difficulty` zeros.
C18_SmallestNonce ==
    [][(pending_transactions # <<>> /\ mine_block) =>
          LET block == chain'[Len(chain')]
          IN  /\ block.hash = compute_hash(block)
              /\ Solves(block, block.nonce)
              /\ \A n \in 0..(block.nonce - 1) : ~Solves(block, n)]_vars

\* C18 as amended: the search increments the nonce before it hashes, so the
\* nonce of a mined block is the smallest n >= 1 whose hash starts with
\* `difficulty` zeros; nonce 0 is never tried.
C18_SmallestPositiveNonce ==
    [][(pending_transactions # <<>> /\ mine_block) =>
          LET block == chain'[Len(chain')]
          IN  /\ block.nonce >= 1
              /\ block.hash = compute_hash(block)
              /\ Solves(block, block.nonce)
              /\ \A n \in 1..(block.nonce - 1) : ~Solves(block, n)]_vars

\* a block was mined with a nonce above 1 although nonce 0 solves it
C18_Witness ==
    /\ response = Response(200, "Block mined successfully.")
    /\ Solves(Tip, 0)
    /\ Tip.nonce > 1

\* the ledger after the transactions of the first n blocks are applied
RECURSIVE AppliedPool(_)
AppliedPool(n) ==
    IF n = 0 THEN EmptyPool ELSE update_utxo_pool(AppliedPool(n - 1), chain[n])

\* C15. Block application is atomic to readers: when get_chain,
\* get_utxo_pool or verify_transaction runs, no handler is between the append
\* of a block and the end of its application, and the ledger is the one the
\* transactions of all the blocks of the chain give.
C15_ReadsSeeWholeBlocks ==
    [][(/\ \/ get_chain
           \/ get_utxo_pool
           \/ \E transaction \in VerifiedTransactions : verify_transaction(transaction)
        /\ UNCHANGED <<pc, local_block>>) =>
          /\ pc = "idle"
          /\ utxo_pool = AppliedPool(Len(chain))]_vars

\* the chain was read after a block was mined and applied
C15_Witness ==
    /\ response = Response(200, "chain")
    /\ Len(chain) = 2
    /\ chain[2].nonce > 0
    /\ pending_transactions = <<>>
    /\ utxo_pool # EmptyPool

\* the transaction is in the pool or in a block of the chain
Kept(transaction) ==
    \/ transaction \in Range(pending_transactions)
    \/ \E i \in 1..Len(chain) : transaction \in Range(chain[i].transactions)

\* C17. No submitted transaction is lost: a transaction is in the pool after
\* new_transaction accepted it, and a transaction that is in the pool or in
\* a block is in the pool or in a block after every step.
C17_NoTransactionLost ==
    [][\A transaction \in Transactions :
          /\ new_transaction(transaction) => Kept(transaction)'
          /\ Kept(transaction) => Kept(transaction)']_vars

\* a transaction was accepted after a block was mined, another one is mined
C17_Witness ==
    /\ response = Response(200, "Transaction added successfully.")
    /\ Len(chain) = 2
    /\ chain[2].transactions = <<TxCreate>>
    /\ chain[2].nonce > 0
    /\ pending_transactions = <<TxSpend>>

\* C19 as stated: for every difficulty, 0 included, the block that mining
\* appends passes validate_block.
C19_MinedBlockValidates ==
    [][(pc = "search" /\ pc' = "clear") =>
          validate_block(chain'[Len(chain')])]_vars

\* some nonce the search can reach gives the block a hash that starts with
\* `difficulty` zeros
Solvable(block) == \E n \in 0..MaxSearch : Solves(block, n)

\* C20. Mining terminates exactly when a solution exists: a search for a
\* candidate that some nonce solves is followed by the answer 'Block mined
\* successfully.' with the pool cleared; as long as the search goes on,
\* chain, pool and ledger are as they were, and the search ends only with a
\* hash that starts with `difficulty` zeros, by the append of the candidate.
C20_MiningTerminates ==
    /\ (pc = "search" /\ Solvable(local_block)) ~>
          (/\ pc = "idle"
           /\ response = Response(200, "Block mined successfully.")
           /\ pending_transactions = <<>>)
    /\ [][pc = "search" =>
             IF pc' = "search" THEN UNCHANGED ledger
             ELSE /\ startswith(local_block.hash, Zeros(difficulty))
                  /\ chain' = Append(chain, local_block)]_vars

\* a block was mined at the difficulty of the source after several nonces
C20_Witness ==
    /\ pc = "idle"
    /\ response = Response(200, "Block mined successfully.")
    /\ difficulty = Difficulty
    /\ Tip.nonce > 2
    /\ pending_transactions = <<>>

====
